---- MODULE Spec2Model ----
(***************************************************************************)
(* Model of BinanceArbitrageBot (src/main.py): the triangular-arbitrage    *)
(* calculator, the /start and /stop command handlers, the background       *)
(* analysis thread, the pair resolver, the configuration setters and the   *)
(* lock file of the main block.                                            *)
(*                                                                         *)
(* Specifications.  Spec: the handlers and the analysis threads.           *)
(* CalcSpec: calculate_arbitrage over an input space.  ResolverSpec:       *)
(* get_trade_pairs over exchangeInfo answers.  ConfigSpec: the setters     *)
(* beside a running analysis thread.  LockSpec: processes starting up      *)
(* against one lock file.                                                  *)
(*                                                                         *)
(* Numbers.  The program computes with Python floats.  The model computes  *)
(* the same expressions exactly, on decimals:                              *)
(*   - a price is a record [m, e] standing for m / 10^e;                   *)
(*   - fee is held in thousandths (fee = 1 is 0.001);                      *)
(*   - min_spread is held in thousandths of a percent (3000 is 3.0 %);     *)
(*   - initial_deposit is held in hundredths (100000 is 1000.00);          *)
(*   - an emitted "spread" and "profit" are held in hundredths, which is   *)
(*     what round(x, 2) produces.                                          *)
(* Intermediate products exceed 32 bits, so they are carried as sequences  *)
(* of base-10000 limbs, least significant first.                           *)
(***************************************************************************)
EXTENDS Integers, Sequences, FiniteSets, TLC

\* ------------------------------------------------------------------ bounds
\* Number of distinct chat identities that send commands.
NumIds == 2
\* Number of analysis threads that may be created in one behaviour.
MaxThreads == 2
\* Number of commands dispatched in one behaviour.
MaxCmds == 4
\* Number of candidate coins in the calculator's input space.
NumCoins == 2
\* Number of setter commands handled in one behaviour.
MaxSets == 3
\* Number of processes started against the same lock file.
NumProcs == 2

\* --------------------------------------------------------------- constants
\* telebot.TeleBot(token) is constructed with its defaults: handlers run on a
\* pool of two worker threads.
NumWorkers == 2
\* Defaults of __init__: min_spread=3.0, fee=0.001, initial_deposit=1000.0
DefaultMinSpread == 3000
DefaultFee == 1
DefaultDeposit == 100000

IDs == 1..NumIds
Workers == 1..NumWorkers
Threads == 1..MaxThreads
AllCoins == <<"A", "B", "C", "D">>
Coins == {AllCoins[i] : i \in 1..NumCoins}
Procs == 1..NumProcs

\* ------------------------------------------------------- exact arithmetic
LimbBase == 10000

RECURSIVE BigNorm(_)
\* drop leading (most significant) zero limbs
BigNorm(a) ==
    IF a = <<>> THEN <<>>
    ELSE IF a[Len(a)] = 0 THEN BigNorm(SubSeq(a, 1, Len(a) - 1)) ELSE a

\* a small natural as limbs
BigOf(n) ==
    IF n = 0 THEN <<>>
    ELSE IF n < LimbBase THEN <<n>>
    ELSE IF n < LimbBase * LimbBase THEN <<n % LimbBase, n \div LimbBase>>
    ELSE <<n % LimbBase, (n \div LimbBase) % LimbBase, n \div (LimbBase * LimbBase)>>

RECURSIVE BigMulCarry(_, _, _)
BigMulCarry(a, s, carry) ==
    IF a = <<>> THEN BigOf(carry)
    ELSE LET v == a[1] * s + carry
         IN  <<v % LimbBase>> \o BigMulCarry(Tail(a), s, v \div LimbBase)

\* a * s for a small natural s (s <= 200000)
BigMulS(a, s) == BigNorm(BigMulCarry(a, s, 0))

RECURSIVE BigMulAll(_, _)
\* a times every factor of the sequence fs
BigMulAll(a, fs) ==
    IF fs = <<>> THEN a ELSE BigMulAll(BigMulS(a, Head(fs)), Tail(fs))

RECURSIVE BigDivFrom(_, _, _, _)
\* long division by a small d, from the most significant limb i down
BigDivFrom(a, d, i, rem) ==
    IF i = 0 THEN [q |-> <<>>, r |-> rem]
    ELSE LET v    == rem * LimbBase + a[i]
             rest == BigDivFrom(a, d, i - 1, v % d)
         IN  [q |-> rest.q \o <<v \div d>>, r |-> rest.r]

\* [q, r] with a = q * d + r, for a small d (0 < d <= 200000)
BigDivS(a, d) ==
    LET res == BigDivFrom(a, d, Len(a), 0)
    IN  [q |-> BigNorm(res.q), r |-> res.r]

RECURSIVE BigDivAll(_, _, _)
\* [q, exact]: q = floor(a / product of ds), exact iff the product divides a
BigDivAll(a, ds, exact) ==
    IF ds = <<>> THEN [q |-> a, exact |-> exact]
    ELSE LET res == BigDivS(a, Head(ds))
         IN  BigDivAll(res.q, Tail(ds), exact /\ res.r = 0)

RECURSIVE BigToInt(_)
BigToInt(a) == IF a = <<>> THEN 0 ELSE a[1] + LimbBase * BigToInt(Tail(a))

RECURSIVE BigCmpFrom(_, _, _)
BigCmpFrom(a, b, i) ==
    IF i = 0 THEN 0
    ELSE IF a[i] > b[i] THEN 1
    ELSE IF a[i] < b[i] THEN -1
    ELSE BigCmpFrom(a, b, i - 1)

\* -1, 0, 1 as a < b, a = b, a > b (normalised operands)
BigCmp(a, b) ==
    IF Len(a) > Len(b) THEN 1
    ELSE IF Len(a) < Len(b) THEN -1
    ELSE BigCmpFrom(a, b, Len(a))

RECURSIVE Tens(_)
\* small factors whose product is 10^k
Tens(k) ==
    IF k = 0 THEN <<>>
    ELSE IF k >= 5 THEN <<100000>> \o Tens(k - 5)
    ELSE IF k = 4 THEN <<10000>>
    ELSE IF k = 3 THEN <<1000>>
    ELSE IF k = 2 THEN <<100>>
    ELSE <<10>>

IsEven(z) == z % 2 = 0

\* round(x - shift) to an integer, ties to even, as Python's round does, where
\* x = num / (product of dens) >= 0 and shift is an integer
RoundHalfEven(num, dens, shift) ==
    LET twice == BigDivAll(BigMulS(num, 2), dens, TRUE)
        F     == BigToInt(twice.q)
        lo    == (F \div 2) - shift
        tie   == twice.exact /\ ~IsEven(F)
    IN  IF tie THEN (IF IsEven(lo) THEN lo ELSE lo + 1)
        ELSE ((F + 1) \div 2) - shift

\* ------------------------------------------------------------------ state
VARIABLES
    \* BinanceArbitrageBot fields
    min_spread, fee, initial_deposit, running, btc_pairs, user_chat_ids,
    \* calculator harness: the snapshot handed to calculate_arbitrage, what
    \* it returned, and whether the call was made ("off", "ready", "done",
    \* "raised")
    snapshot, result, calc_pc,
    \* handler workers: position in the handler, message.chat.id
    hpc, hchat,
    \* analysis threads: position in run_analysis, the tick's opportunities,
    \* the set iterator of line 175 (size at creation, last slot visited)
    tpc, topps, it_size, it_pos,
    \* history of the current tick: send_message calls per chat id, CSV
    \* appends, ids subscribed throughout the notification loop, the exception
    \* absorbed ("none", "append", "iteration"), get_prices returned prices,
    \* calculate_arbitrage was called, the answer of get_prices
    sent, appended, present, terr, tgot, tcalc, tprices,
    \* history of the commands: how often each was dispatched, handlers never
    \* overlapped, per worker: running stayed True since dispatch, the
    \* handler removed its id; threads alive when running was cleared
    issued, serial, hclean, hremoved, cancelled,
    \* setter commands: how many were handled, the reply to the last one
    \* ("none", "set", "error"), the values last acknowledged to a user, the
    \* last command and its argument
    nsets, reply, acked, lastset,
    \* resolver harness: the exchangeInfo answer handed to get_trade_pairs,
    \* whether the request succeeded, whether the call was made
    exchange, res_ok, res_pc,
    \* process start-up: /tmp/bot.lock exists (its content is never read), and
    \* each process's position in the main block
    lockfile, ppc

cfgVars == <<min_spread, fee, initial_deposit>>
calcVars == <<snapshot, result, calc_pc>>
botVars == <<running, btc_pairs, user_chat_ids>>
handlerVars == <<hpc, hchat>>
threadVars == <<tpc, topps, it_size, it_pos>>
tickHist == <<sent, appended, present, terr, tgot, tcalc, tprices>>
cmdHist == <<issued, serial, hclean, hremoved, cancelled>>
setVars == <<nsets, reply, acked, lastset>>
resVars == <<exchange, res_ok, res_pc>>
lockVars == <<lockfile, ppc>>
\* what the bot's handlers and threads never touch
auxVars == <<setVars, resVars, lockVars>>

\* ------------------------------------------------------------- calculator
\* f"{coin}USDT", f"{coin}BTC": a symbol is the pair (base, quote)
Symbol(coin, quote) == <<coin, quote>>
BTCUSDT == Symbol("BTC", "USDT")
One == [m |-> 1, e |-> 0]

\* prices.get('BTCUSDT', 1)
CrossRate(prices) == IF BTCUSDT \in DOMAIN prices THEN prices[BTCUSDT] ELSE One

\* final_usdt / initial_deposit as numerator and denominator factors:
\* ((D / pu) * (1 - fee)) * pb * (1 - fee) * bu * (1 - fee) / D
GainNum(prices, coin) ==
    LET pu == prices[Symbol(coin, "USDT")]
        pb == prices[Symbol(coin, "BTC")]
        bu == CrossRate(prices)
        q  == 1000 - fee
    IN  BigMulAll(BigOf(initial_deposit), <<q, q, q, pb.m, bu.m>> \o Tens(pu.e))

GainDens(prices, coin) ==
    LET pu == prices[Symbol(coin, "USDT")]
        pb == prices[Symbol(coin, "BTC")]
        bu == CrossRate(prices)
    IN  <<pu.m, 1000, 1000, 1000, initial_deposit>> \o Tens(pb.e + bu.e)

\* the divisions of lines 89 and 92 raise ZeroDivisionError
Raises(prices, coin) ==
    prices[Symbol(coin, "USDT")].m = 0 \/ initial_deposit = 0

\* spread >= self.min_spread: the comparison made non-strict
AboveMinOrEqual(prices, coin) ==
    BigCmp(BigMulAll(GainNum(prices, coin), <<100000>>),
           BigMulAll(BigOf(100000 + min_spread), GainDens(prices, coin))) >= 0

\* spread > self.min_spread, on the unrounded spread
\*   (final / D - 1) * 100 > min_spread
AboveMin(prices, coin) ==
    BigCmp(BigMulAll(GainNum(prices, coin), <<100000>>),
           BigMulAll(BigOf(100000 + min_spread), GainDens(prices, coin))) = 1

\* round(spread, 2), in hundredths of a percent
RoundedSpread(prices, coin) ==
    RoundHalfEven(BigMulAll(GainNum(prices, coin), <<10000>>),
                  GainDens(prices, coin), 10000)

\* the profit rounded up to the next hundredth instead of to the nearest
RoundedProfitCeil(prices, coin) ==
    LET res == BigDivAll(BigMulAll(GainNum(prices, coin), <<initial_deposit>>),
                         GainDens(prices, coin), TRUE)
    IN  BigToInt(res.q) + (IF res.exact THEN 0 ELSE 1) - initial_deposit

\* round(final_usdt - self.initial_deposit, 2), in hundredths
RoundedProfit(prices, coin) ==
    RoundHalfEven(BigMulAll(GainNum(prices, coin), <<initial_deposit>>),
                  GainDens(prices, coin), initial_deposit)

\* the body of the for loop for one coin: the records it appends
Evaluate(prices, coin) ==
    IF Symbol(coin, "USDT") \notin DOMAIN prices
       \/ Symbol(coin, "BTC") \notin DOMAIN prices
    THEN <<>>
    ELSE IF Raises(prices, coin) THEN <<>>
    ELSE IF AboveMin(prices, coin)
    THEN <<[coin   |-> coin,
            spread |-> RoundedSpread(prices, coin),
            profit |-> RoundedProfit(prices, coin)]>>
    ELSE <<>>

RECURSIVE Collect(_, _)
\* opportunities, in the order of the candidate list
Collect(prices, coins) ==
    IF coins = <<>> THEN <<>>
    ELSE Evaluate(prices, Head(coins)) \o Collect(prices, Tail(coins))

RECURSIVE InsertDesc(_, _)
\* x placed behind every element whose spread is >= x.spread
InsertDesc(sorted, x) ==
    IF sorted = <<>> THEN <<x>>
    ELSE IF Head(sorted).spread >= x.spread
    THEN <<Head(sorted)>> \o InsertDesc(Tail(sorted), x)
    ELSE <<x>> \o sorted

RECURSIVE InsertDescBeforeTies(_, _)
\* x placed in front of the elements whose spread is equal to x.spread
InsertDescBeforeTies(sorted, x) ==
    IF sorted = <<>> THEN <<x>>
    ELSE IF Head(sorted).spread > x.spread
    THEN <<Head(sorted)>> \o InsertDescBeforeTies(Tail(sorted), x)
    ELSE <<x>> \o sorted

RECURSIVE SortFrom(_, _)
SortFrom(done, rest) ==
    IF rest = <<>> THEN done
    ELSE SortFrom(InsertDesc(done, Head(rest)), Tail(rest))

RECURSIVE SortFromUnstable(_, _)
SortFromUnstable(done, rest) ==
    IF rest = <<>> THEN done
    ELSE SortFromUnstable(InsertDescBeforeTies(done, Head(rest)), Tail(rest))

\* sorted(opportunities, reverse=True)[..] built as an ascending sort reversed:
\* descending, but equal spreads come out in reverse order
SortedUnstable(opps) == SortFromUnstable(<<>>, opps)

\* sorted(opportunities, key=lambda x: x["spread"], reverse=True): Python's
\* sort is stable, and reverse=True keeps equal keys in their original order
SortedDesc(opps) == SortFrom(<<>>, opps)

calculate_arbitrage(prices) == SortedDesc(Collect(prices, btc_pairs))

\* both symbols of the coin are in the snapshot (the test of line 86 passes)
Quoted(prices, coin) ==
    Symbol(coin, "USDT") \in DOMAIN prices /\ Symbol(coin, "BTC") \in DOMAIN prices

\* no try/except around lines 89-98: the exception leaves the for loop
OnCoinErrorPropagate == "propagate"

\* lines 88 and 99-100: the exception raised for one coin is caught and
\* logged, and the for loop goes on with the next coin
OnCoinError == "skip"

\* an exception leaves calculate_arbitrage: the evaluation of some candidate
\* raised and was not caught
Propagates(prices) ==
    /\ OnCoinError = "propagate"
    /\ \E i \in DOMAIN btc_pairs :
          Quoted(prices, btc_pairs[i]) /\ Raises(prices, btc_pairs[i])

Commands == {"start", "stop"} \X IDs

\* --------------------------------------------- calculator input space
Absent == [m |-> 0, e |-> -1]
\* X/USDT quotes: missing, 0 and 2.0
UsdtQuotes == {Absent, [m |-> 0, e |-> 0], [m |-> 2, e |-> 0]}
\* X/BTC quotes: missing, 0.0000335 and 0.00005
BtcQuotes == {Absent, [m |-> 335, e |-> 7], [m |-> 5, e |-> 5]}
\* BTC/USDT: missing and 60000
CrossQuotes == {Absent, [m |-> 60000, e |-> 0]}

MakeSnapshot(cross, pu, pb) ==
    LET dom == (IF cross = Absent THEN {} ELSE {BTCUSDT})
               \cup {Symbol(c, "USDT") : c \in {x \in Coins : pu[x] # Absent}}
               \cup {Symbol(c, "BTC") : c \in {x \in Coins : pb[x] # Absent}}
    IN  [s \in dom |-> IF s = BTCUSDT THEN cross
                       ELSE IF s[2] = "USDT" THEN pu[s[1]] ELSE pb[s[1]]]

Snapshots ==
    {MakeSnapshot(cross, pu, pb) :
        cross \in CrossQuotes, pu \in [Coins -> UsdtQuotes], pb \in [Coins -> BtcQuotes]}

\* list(btc_coins & usdt_coins): any order, no coin twice
CandidateLists ==
    {l \in UNION {[1..n -> Coins] : n \in 0..NumCoins} :
        \A i, j \in DOMAIN l : l[i] = l[j] => i = j}

\* configurations: the defaults, a low threshold, a threshold at a rounded
\* spread, and a threshold met exactly with no fee
Configs ==
    {[min_spread |-> DefaultMinSpread, fee |-> DefaultFee, deposit |-> DefaultDeposit],
     [min_spread |-> 100, fee |-> DefaultFee, deposit |-> DefaultDeposit],
     [min_spread |-> 49550, fee |-> DefaultFee, deposit |-> DefaultDeposit],
     [min_spread |-> 50000, fee |-> 0, deposit |-> DefaultDeposit]}

\* price answers seen by the analysis thread: a failed fetch ({}), a snapshot
\* in which coin A is profitable, and one in which it is not
NoQuotes == [c \in Coins |-> Absent]
EmptySnapshot == MakeSnapshot(Absent, NoQuotes, NoQuotes)
ProfitSnapshot ==
    MakeSnapshot([m |-> 60000, e |-> 0],
                 [NoQuotes EXCEPT !["A"] = [m |-> 2, e |-> 0]],
                 [NoQuotes EXCEPT !["A"] = [m |-> 5, e |-> 5]])
FlatSnapshot ==
    MakeSnapshot([m |-> 60000, e |-> 0],
                 [NoQuotes EXCEPT !["A"] = [m |-> 2, e |-> 0]],
                 [NoQuotes EXCEPT !["A"] = [m |-> 335, e |-> 7]])
TickSnapshots == {EmptySnapshot, ProfitSnapshot, FlatSnapshot}

\* message.text.split()[1] of a setter command: missing (IndexError), not a
\* number (ValueError of float), or a number
NoArg == [kind |-> "missing", v |-> 0]
Garbage == [kind |-> "text", v |-> 0]
Number(x) == [kind |-> "num", v |-> x]
\* /set_min_spread: nothing, "abc", -1.0, 0, 3.0, 50.0
MinSpreadArgs == {NoArg, Garbage} \cup {Number(x) : x \in {-1000, 0, 3000, 50000}}
\* /set_fee: nothing, "abc", -0.5, 0, 0.001, 1.0, 1.5
FeeArgs == {NoArg, Garbage} \cup {Number(x) : x \in {-500, 0, 1, 1000, 1500}}
\* /set_deposit: nothing, "abc", -1.0, 0, 1000.0, 2000.0
DepositArgs == {NoArg, Garbage} \cup {Number(x) : x \in {-100, 0, 100000, 200000}}

\* no setter command handled, no resolver call pending, and the lock file as
\* the process that runs the bot wrote it
AuxIdle ==
    /\ nsets = 0
    /\ reply = "none"
    /\ acked = [min_spread |-> DefaultMinSpread, fee |-> DefaultFee,
                deposit |-> DefaultDeposit]
    /\ lastset = [cmd |-> "none", arg |-> NoArg]
    /\ exchange = {}
    /\ res_ok = TRUE
    /\ res_pc = "off"
    /\ lockfile = TRUE
    /\ ppc = [p \in Procs |-> IF p = 1 THEN "run" ELSE "off"]

\* no handler dispatched, no thread created
Idle ==
    /\ hpc = [w \in Workers |-> "idle"]
    /\ hchat = [w \in Workers |-> 0]
    /\ tpc = [t \in Threads |-> "unborn"]
    /\ topps = [t \in Threads |-> <<>>]
    /\ it_size = [t \in Threads |-> 0]
    /\ it_pos = [t \in Threads |-> 0]
    /\ sent = [t \in Threads |-> [i \in IDs |-> 0]]
    /\ appended = [t \in Threads |-> 0]
    /\ present = [t \in Threads |-> {}]
    /\ terr = [t \in Threads |-> "none"]
    /\ tgot = [t \in Threads |-> FALSE]
    /\ tcalc = [t \in Threads |-> FALSE]
    /\ tprices = [t \in Threads |-> EmptySnapshot]
    /\ issued = [c \in Commands |-> 0]
    /\ serial = TRUE
    /\ hclean = [w \in Workers |-> FALSE]
    /\ hremoved = [w \in Workers |-> FALSE]
    /\ cancelled = {}

CalcInit ==
    /\ \E c \in Configs :
          /\ min_spread = c.min_spread
          /\ fee = c.fee
          /\ initial_deposit = c.deposit
    /\ btc_pairs \in CandidateLists
    /\ snapshot \in Snapshots
    /\ result = <<>>
    /\ calc_pc = "ready"
    /\ running = FALSE
    /\ user_chat_ids = {}
    /\ Idle
    /\ AuxIdle

\* opportunities = self.calculate_arbitrage(prices)
Calculate ==
    /\ calc_pc = "ready"
    /\ IF Propagates(snapshot)
       THEN result' = <<>> /\ calc_pc' = "raised"
       ELSE result' = calculate_arbitrage(snapshot) /\ calc_pc' = "done"
    /\ UNCHANGED <<auxVars, cfgVars, botVars, snapshot, handlerVars, threadVars, tickHist, cmdHist>>

vars == <<cfgVars, botVars, calcVars, handlerVars, threadVars, tickHist, cmdHist,
          auxVars>>

CalcNext == Calculate
CalcSpec == CalcInit /\ [][CalcNext]_vars

\* ---------------------------------------------------------------- resolver
\* the test of line 69 left out: instruments of any status count
TradingBasesAnyStatus(symbols, quote) ==
    {x.base : x \in {y \in symbols : y.quote = quote}}

\* base assets of the TRADING instruments quoted in `quote`
TradingBases(symbols, quote) ==
    {x.base : x \in {y \in symbols : y.status = "TRADING" /\ y.quote = quote}}

\* btc_coins & usdt_coins
ResolvedCoins(symbols) == TradingBases(symbols, "BTC") \cap TradingBases(symbols, "USDT")

\* list(set): the members in some order
ListsOf(S) == {l \in CandidateLists : {l[i] : i \in DOMAIN l} = S}

\* exchangeInfo answers: coin A trades against both quotes, coin B's USDT
\* market is halted
ExchangeInfos ==
    {{[base |-> "A", quote |-> "BTC", status |-> "TRADING"],
      [base |-> "A", quote |-> "USDT", status |-> "TRADING"],
      [base |-> "B", quote |-> "BTC", status |-> "TRADING"],
      [base |-> "B", quote |-> "USDT", status |-> "BREAK"]}}

\* --------------------------------------------------------------- handlers
RECURSIVE SumOver(_, _)
SumOver(f, S) ==
    IF S = {} THEN 0
    ELSE LET x == CHOOSE y \in S : TRUE IN f[x] + SumOver(f, S \ {x})

\* number of commands dispatched so far
Total(bag) == SumOver(bag, Commands)

Alive(t) == tpc[t] \notin {"unborn", "done"}

\* the chat library hands a message to a free worker thread
Dispatch(w, cmd, id) ==
    /\ hpc[w] = "idle"
    /\ Total(issued) < MaxCmds
    /\ hchat' = [hchat EXCEPT ![w] = id]
    /\ issued' = [issued EXCEPT ![<<cmd, id>>] = @ + 1]
    /\ serial' = (serial /\ \A v \in Workers : hpc[v] = "idle")
    /\ hclean' = [hclean EXCEPT ![w] = running]

\* the handler returns
Return(w) ==
    /\ hpc' = [hpc EXCEPT ![w] = "idle"]
    /\ hchat' = [hchat EXCEPT ![w] = 0]

\* start_analysis, lines 139-142: the handler is entered and the id is added
\* if it is not in the set (send_message swallows a failed send)
StartEnter(w, id) ==
    /\ Dispatch(w, "start", id)
    /\ user_chat_ids' = IF id \notin user_chat_ids
                        THEN user_chat_ids \cup {id} ELSE user_chat_ids
    /\ hremoved' = [hremoved EXCEPT ![w] = FALSE]
    /\ hpc' = [hpc EXCEPT ![w] = "s143"]
    /\ UNCHANGED <<auxVars, cfgVars, running, btc_pairs, calcVars, threadVars, tickHist,
                   cancelled>>

\* the test of line 143 left out: the loop is started on every /start
StartBranchAlways(flag) == "s144"

\* the test of line 143: if not self.running
StartBranch(flag) == IF ~flag THEN "s144" ELSE "idle"

\* start_analysis, line 143
StartCheck(w) ==
    /\ hpc[w] = "s143"
    /\ IF StartBranch(running) = "s144"
       THEN hpc' = [hpc EXCEPT ![w] = "s144"] /\ hchat' = hchat
       ELSE Return(w)
    /\ UNCHANGED <<auxVars, cfgVars, botVars, calcVars, threadVars, tickHist, cmdHist>>

\* get_trade_pairs: the lists self.btc_pairs may hold afterwards.  A failed
\* request (ok = FALSE) is logged and leaves btc_pairs as it was.
get_trade_pairs(ok, symbols) ==
    IF ok THEN ListsOf(ResolvedCoins(symbols)) ELSE {btc_pairs}

\* start_analysis, lines 144-149: running is set, the pairs are resolved and
\* a new thread is created, which begins at the while test
StartLoop(w) ==
    /\ hpc[w] = "s144"
    /\ running' = TRUE
    /\ \E ok \in BOOLEAN, symbols \in ExchangeInfos :
          btc_pairs' \in get_trade_pairs(ok, symbols)
    /\ \E t \in Threads :
          /\ tpc[t] = "unborn"
          /\ \A u \in Threads : u < t => tpc[u] # "unborn"
          /\ tpc' = [tpc EXCEPT ![t] = "top"]
    /\ Return(w)
    /\ UNCHANGED <<auxVars, cfgVars, user_chat_ids, calcVars, topps, it_size, it_pos,
                   tickHist, cmdHist>>

\* stop_analysis, lines 152-155: the handler is entered and the id is removed
\* if it is in the set
StopEnter(w, id) ==
    /\ Dispatch(w, "stop", id)
    /\ user_chat_ids' = IF id \in user_chat_ids
                        THEN user_chat_ids \ {id} ELSE user_chat_ids
    /\ hremoved' = [hremoved EXCEPT ![w] = id \in user_chat_ids]
    /\ present' = [t \in Threads |-> present[t] \ {id}]
    /\ hpc' = [hpc EXCEPT ![w] = "s156"]
    /\ UNCHANGED <<auxVars, cfgVars, running, btc_pairs, calcVars, threadVars,
                   sent, appended, terr, tgot, tcalc, tprices, cancelled>>

\* the test of line 156 left out: every /stop stops the loop
StopBranchAlways(ids) == "s157"

\* the test of line 156: if not self.user_chat_ids
StopBranch(ids) == IF ids = {} THEN "s157" ELSE "idle"

\* stop_analysis, line 156
StopCheck(w) ==
    /\ hpc[w] = "s156"
    /\ IF StopBranch(user_chat_ids) = "s157"
       THEN hpc' = [hpc EXCEPT ![w] = "s157"] /\ hchat' = hchat
       ELSE Return(w)
    /\ UNCHANGED <<auxVars, cfgVars, botVars, calcVars, threadVars, tickHist, cmdHist>>

\* stop_analysis, lines 157-158
StopClear(w) ==
    /\ hpc[w] = "s157"
    /\ running' = FALSE
    /\ hclean' = [v \in Workers |-> FALSE]
    /\ cancelled' = cancelled \cup {t \in Threads : Alive(t)}
    /\ Return(w)
    /\ UNCHANGED <<auxVars, cfgVars, btc_pairs, user_chat_ids, calcVars, threadVars,
                   tickHist, issued, serial, hremoved>>

\* -------------------------------------------------------- analysis thread
NoSends == [i \in IDs |-> 0]

\* run_analysis, line 161: while self.running
LoopTest(t) ==
    /\ tpc[t] = "top"
    /\ tpc' = [tpc EXCEPT ![t] = IF running THEN "fetch" ELSE "done"]
    /\ UNCHANGED <<auxVars, cfgVars, botVars, calcVars, handlerVars, topps, it_size, it_pos,
                   tickHist, cmdHist>>

\* log_opportunities without its first two lines: the file is opened (and a
\* header written to an empty file) also for an empty batch
log_opportunities_unguarded(opportunities, ok) ==
    IF ok THEN "appended" ELSE "raised"

\* log_opportunities: returns at once on an empty batch, else opens the CSV
\* file and appends; open or write may raise (ok = FALSE)
log_opportunities(opportunities, ok) ==
    IF opportunities = <<>> THEN "skipped"
    ELSE IF ok THEN "appended" ELSE "raised"

\* no try/except around the loop body: an exception ends the thread
OnExceptionDie == "done"

\* lines 179-181: the exception is logged, then time.sleep(60)
OnException == "sleep"

\* the test of line 164 left out: an empty answer is handed on to
\* calculate_arbitrage like any other
EmptyAnswerIgnored(prices) == FALSE

\* the test of line 164: if not prices
EmptyAnswer(prices) == DOMAIN prices = {}

\* run_analysis, lines 163-175: get_prices; an empty answer goes to the sleep
\* of line 166; any other is handed to calculate_arbitrage and the result to
\* log_opportunities; for a non-empty result the iterator over
\* self.user_chat_ids is created, else "nothing found" is logged
Tick(t) ==
    /\ tpc[t] = "fetch"
    /\ \E prices \in TickSnapshots :
        \E opps \in {IF EmptyAnswer(prices) THEN <<>> ELSE calculate_arbitrage(prices)} :
        \E ok \in BOOLEAN :
          LET out == log_opportunities(opps, ok)
          IN  /\ tprices' = [tprices EXCEPT ![t] = prices]
              /\ tgot' = [tgot EXCEPT ![t] = DOMAIN prices # {}]
              /\ tcalc' = [tcalc EXCEPT ![t] = ~EmptyAnswer(prices)]
              /\ IF EmptyAnswer(prices)
                 THEN /\ tpc' = [tpc EXCEPT ![t] = "sleep"]
                      /\ terr' = [terr EXCEPT ![t] = "none"]
                      /\ UNCHANGED <<topps, it_size, appended, present>>
                 ELSE /\ topps' = [topps EXCEPT ![t] = opps]
                      /\ appended' = [appended EXCEPT ![t] =
                                         IF out = "appended" THEN @ + 1 ELSE @]
                      /\ terr' = [terr EXCEPT ![t] =
                                     IF out = "raised" THEN "append" ELSE "none"]
                      /\ IF out = "raised"
                         THEN /\ tpc' = [tpc EXCEPT ![t] = OnException]
                              /\ UNCHANGED <<it_size, present>>
                         ELSE IF opps # <<>>
                         THEN /\ tpc' = [tpc EXCEPT ![t] = "notify"]
                              /\ it_size' = [it_size EXCEPT ![t] =
                                                Cardinality(user_chat_ids)]
                              /\ present' = [present EXCEPT ![t] = user_chat_ids]
                         ELSE /\ tpc' = [tpc EXCEPT ![t] = "sleep"]
                              /\ UNCHANGED <<it_size, present>>
    /\ UNCHANGED <<auxVars, cfgVars, botVars, calcVars, handlerVars, it_pos, sent, cmdHist>>

\* ids the iterator has not passed yet: a CPython set of small ints is
\* walked in slot order, which is the order of the ids
Ahead(t) == {i \in user_chat_ids : i > it_pos[t]}

\* run_analysis, lines 175-176: one step of the for loop.  The set iterator
\* raises RuntimeError when the set's size differs from the size at its
\* creation; send_message swallows a failed send (lines 133-136).
Notify(t) ==
    /\ tpc[t] = "notify"
    /\ IF Cardinality(user_chat_ids) # it_size[t]
       THEN /\ tpc' = [tpc EXCEPT ![t] = OnException]
            /\ terr' = [terr EXCEPT ![t] = "iteration"]
            /\ UNCHANGED <<it_pos, sent>>
       ELSE IF Ahead(t) # {}
       THEN LET id == CHOOSE i \in Ahead(t) : \A j \in Ahead(t) : i <= j
            IN  /\ sent' = [sent EXCEPT ![t][id] = @ + 1]
                /\ it_pos' = [it_pos EXCEPT ![t] = id]
                /\ UNCHANGED <<tpc, terr>>
       ELSE /\ tpc' = [tpc EXCEPT ![t] = "sleep"]
            /\ UNCHANGED <<it_pos, sent, terr>>
    /\ UNCHANGED <<auxVars, cfgVars, botVars, calcVars, handlerVars, topps, it_size,
                   appended, present, tgot, tcalc, tprices, cmdHist>>

\* run_analysis, lines 166 and 181: time.sleep(60) returns; the tick is over
Sleep(t) ==
    /\ tpc[t] = "sleep"
    /\ tpc' = [tpc EXCEPT ![t] = "top"]
    /\ topps' = [topps EXCEPT ![t] = <<>>]
    /\ it_size' = [it_size EXCEPT ![t] = 0]
    /\ it_pos' = [it_pos EXCEPT ![t] = 0]
    /\ sent' = [sent EXCEPT ![t] = NoSends]
    /\ appended' = [appended EXCEPT ![t] = 0]
    /\ present' = [present EXCEPT ![t] = {}]
    /\ tgot' = [tgot EXCEPT ![t] = FALSE]
    /\ tcalc' = [tcalc EXCEPT ![t] = FALSE]
    /\ tprices' = [tprices EXCEPT ![t] = EmptySnapshot]
    /\ UNCHANGED <<auxVars, cfgVars, botVars, calcVars, handlerVars, terr, cmdHist>>

\* --------------------------------------------------------- resolver harness
\* exchangeInfo answers: each coin has, for each of three quote assets, no
\* instrument, one in TRADING status, or a halted one
Quotes == {"BTC", "USDT", "ETH"}
ExchangeAnswers ==
    {{[base |-> k[1], quote |-> k[2], status |-> st[k]] :
         k \in {j \in Coins \X Quotes : st[j] # "none"}} :
       st \in [Coins \X Quotes -> {"none", "TRADING", "BREAK"}]}

\* before the call btc_pairs is [] (line 34) or what an earlier call left
ResolverInit ==
    /\ min_spread = DefaultMinSpread
    /\ fee = DefaultFee
    /\ initial_deposit = DefaultDeposit
    /\ running = FALSE
    /\ btc_pairs \in {<<>>, <<AllCoins[1]>>}
    /\ user_chat_ids = {}
    /\ snapshot = EmptySnapshot
    /\ result = <<>>
    /\ calc_pc = "off"
    /\ Idle
    /\ nsets = 0
    /\ reply = "none"
    /\ acked = [min_spread |-> DefaultMinSpread, fee |-> DefaultFee,
                deposit |-> DefaultDeposit]
    /\ lastset = [cmd |-> "none", arg |-> NoArg]
    /\ exchange \in ExchangeAnswers
    /\ res_ok \in BOOLEAN
    /\ res_pc = "ready"
    /\ lockfile = TRUE
    /\ ppc = [p \in Procs |-> IF p = 1 THEN "run" ELSE "off"]

\* self.get_trade_pairs()
Resolve ==
    /\ res_pc = "ready"
    /\ btc_pairs' \in get_trade_pairs(res_ok, exchange)
    /\ res_pc' = "done"
    /\ UNCHANGED <<cfgVars, running, user_chat_ids, calcVars, handlerVars,
                   threadVars, tickHist, cmdHist, setVars, exchange, res_ok,
                   lockVars>>

ResolverNext == Resolve
ResolverSpec == ResolverInit /\ [][ResolverNext]_vars

\* ----------------------------------------------------------------- setters
\* value = float(message.text.split()[1]) returns a number
Parses(arg) == arg.kind = "num"

\* set_min_spread with the assignment of line 223 lost: the value is
\* acknowledged but not stored
set_min_spread_unstored(arg) ==
    IF Parses(arg) THEN [reply |-> "set", value |-> min_spread]
    ELSE [reply |-> "error", value |-> min_spread]

\* set_min_spread, lines 221-226: any number is stored and acknowledged; the
\* bare except answers with the usage text
set_min_spread(arg) ==
    IF Parses(arg) THEN [reply |-> "set", value |-> arg.v]
    ELSE [reply |-> "error", value |-> min_spread]

\* set_fee, lines 229-236: a number outside [0, 1] raises ValueError
set_fee(arg) ==
    IF Parses(arg) /\ 0 <= arg.v /\ arg.v <= 1000
    THEN [reply |-> "set", value |-> arg.v]
    ELSE [reply |-> "error", value |-> fee]

\* set_deposit, lines 239-246: a number <= 0 raises ValueError
set_deposit(arg) ==
    IF Parses(arg) /\ ~(arg.v <= 0)
    THEN [reply |-> "set", value |-> arg.v]
    ELSE [reply |-> "error", value |-> initial_deposit]

\* what a setter handler leaves alone besides the configuration
setterFrame == <<botVars, calcVars, handlerVars, threadVars, tickHist, cmdHist,
                 resVars, lockVars>>

\* the bookkeeping of one setter command
Handled(cmd, arg, out) ==
    /\ nsets < MaxSets
    /\ nsets' = nsets + 1
    /\ reply' = out.reply
    /\ lastset' = [cmd |-> cmd, arg |-> arg]
    /\ acked' = IF out.reply # "set" THEN acked
                ELSE IF cmd = "set_min_spread" THEN [acked EXCEPT !.min_spread = arg.v]
                ELSE IF cmd = "set_fee" THEN [acked EXCEPT !.fee = arg.v]
                ELSE [acked EXCEPT !.deposit = arg.v]

SetMinSpread ==
    /\ \E arg \in MinSpreadArgs :
          LET out == set_min_spread(arg)
          IN  Handled("set_min_spread", arg, out) /\ min_spread' = out.value
    /\ UNCHANGED <<fee, initial_deposit, setterFrame>>

SetFee ==
    /\ \E arg \in FeeArgs :
          LET out == set_fee(arg)
          IN  Handled("set_fee", arg, out) /\ fee' = out.value
    /\ UNCHANGED <<min_spread, initial_deposit, setterFrame>>

SetDeposit ==
    /\ \E arg \in DepositArgs :
          LET out == set_deposit(arg)
          IN  Handled("set_deposit", arg, out) /\ initial_deposit' = out.value
    /\ UNCHANGED <<min_spread, fee, setterFrame>>

\* the state after /start from chat 1 was handled with exchangeInfo
\* answering: the loop is active with one thread at its while test
Activated ==
    /\ running = TRUE
    /\ btc_pairs = <<"A">>
    /\ user_chat_ids = {1}
    /\ hpc = [w \in Workers |-> "idle"]
    /\ hchat = [w \in Workers |-> 0]
    /\ tpc = [t \in Threads |-> IF t = 1 THEN "top" ELSE "unborn"]
    /\ topps = [t \in Threads |-> <<>>]
    /\ it_size = [t \in Threads |-> 0]
    /\ it_pos = [t \in Threads |-> 0]
    /\ sent = [t \in Threads |-> [i \in IDs |-> 0]]
    /\ appended = [t \in Threads |-> 0]
    /\ present = [t \in Threads |-> {}]
    /\ terr = [t \in Threads |-> "none"]
    /\ tgot = [t \in Threads |-> FALSE]
    /\ tcalc = [t \in Threads |-> FALSE]
    /\ tprices = [t \in Threads |-> EmptySnapshot]
    /\ issued = [c \in Commands |-> IF c = <<"start", 1>> THEN 1 ELSE 0]
    /\ serial = TRUE
    /\ hclean = [w \in Workers |-> FALSE]
    /\ hremoved = [w \in Workers |-> FALSE]
    /\ cancelled = {}

ConfigInit ==
    /\ min_spread = DefaultMinSpread
    /\ fee = DefaultFee
    /\ initial_deposit = DefaultDeposit
    /\ snapshot = EmptySnapshot
    /\ result = <<>>
    /\ calc_pc = "off"
    /\ Activated
    /\ AuxIdle

ConfigNext ==
    \/ SetMinSpread
    \/ SetFee
    \/ SetDeposit
    \/ \E t \in Threads : LoopTest(t)
    \/ \E t \in Threads : Tick(t)
    \/ \E t \in Threads : Notify(t)
    \/ \E t \in Threads : Sleep(t)

ConfigSpec == ConfigInit /\ [][ConfigNext]_vars

\* ---------------------------------------------------------------- start-up
\* what the main block does before and after the bot runs leaves the bot alone
lockFrame == <<cfgVars, botVars, calcVars, handlerVars, threadVars, tickHist,
               cmdHist, setVars, resVars>>

\* python main.py is started (for the first time, or again after the
\* process started before has ended) and reaches line 263
Launch(p) ==
    /\ ppc[p] \in {"off", "refused", "done", "failed"}
    /\ ppc' = [ppc EXCEPT ![p] = "l252"]
    /\ UNCHANGED <<lockfile, lockFrame>>

\* acquire_lock, lines 252-254: os.path.exists(LOCKFILE); sys.exit(1) is
\* raised before the try of line 264, so release_lock is not run
CheckLock(p) ==
    /\ ppc[p] = "l252"
    /\ ppc' = [ppc EXCEPT ![p] = IF lockfile THEN "refused" ELSE "l255"]
    /\ UNCHANGED <<lockfile, lockFrame>>

\* acquire_lock, line 255: open(LOCKFILE, "w") creates the file, or
\* truncates the one that is there
OpenLock(p) ==
    /\ ppc[p] = "l255"
    /\ lockfile' = TRUE
    /\ ppc' = [ppc EXCEPT ![p] = "l256"]
    /\ UNCHANGED lockFrame

\* acquire_lock, line 256: the pid is written and the file closed; the
\* process goes on to lines 265-269 and runs the bot
WritePid(p) ==
    /\ ppc[p] = "l256"
    /\ ppc' = [ppc EXCEPT ![p] = "run"]
    /\ UNCHANGED <<lockfile, lockFrame>>

\* lines 264-270: the try block ends (polling returns or raises) and the
\* finally clause is entered
BotStops(p) ==
    /\ ppc[p] = "run"
    /\ ppc' = [ppc EXCEPT ![p] = "l259"]
    /\ UNCHANGED <<lockfile, lockFrame>>

\* release_lock, line 259: os.path.exists(LOCKFILE)
ReleaseCheck(p) ==
    /\ ppc[p] = "l259"
    /\ ppc' = [ppc EXCEPT ![p] = IF lockfile THEN "l260" ELSE "done"]
    /\ UNCHANGED <<lockfile, lockFrame>>

\* release_lock, line 260: os.remove(LOCKFILE), which raises
\* FileNotFoundError when the file has been removed in the meantime
ReleaseRemove(p) ==
    /\ ppc[p] = "l260"
    /\ ppc' = [ppc EXCEPT ![p] = IF lockfile THEN "done" ELSE "failed"]
    /\ lockfile' = FALSE
    /\ UNCHANGED lockFrame

\* no process started, no lock file
LockInit ==
    /\ min_spread = DefaultMinSpread
    /\ fee = DefaultFee
    /\ initial_deposit = DefaultDeposit
    /\ running = FALSE
    /\ btc_pairs = <<>>
    /\ user_chat_ids = {}
    /\ snapshot = EmptySnapshot
    /\ result = <<>>
    /\ calc_pc = "off"
    /\ Idle
    /\ nsets = 0
    /\ reply = "none"
    /\ acked = [min_spread |-> DefaultMinSpread, fee |-> DefaultFee,
                deposit |-> DefaultDeposit]
    /\ lastset = [cmd |-> "none", arg |-> NoArg]
    /\ exchange = {}
    /\ res_ok = TRUE
    /\ res_pc = "off"
    /\ lockfile = FALSE
    /\ ppc = [p \in Procs |-> "off"]

LockNext ==
    \/ \E p \in Procs : Launch(p)
    \/ \E p \in Procs : CheckLock(p)
    \/ \E p \in Procs : OpenLock(p)
    \/ \E p \in Procs : WritePid(p)
    \/ \E p \in Procs : BotStops(p)
    \/ \E p \in Procs : ReleaseCheck(p)
    \/ \E p \in Procs : ReleaseRemove(p)

LockSpec == LockInit /\ [][LockNext]_vars

\* ------------------------------------------------------------ the program
\* __init__, lines 27-37
Init ==
    /\ min_spread = DefaultMinSpread
    /\ fee = DefaultFee
    /\ initial_deposit = DefaultDeposit
    /\ running = FALSE
    /\ btc_pairs = <<>>
    /\ user_chat_ids = {}
    /\ snapshot = EmptySnapshot
    /\ result = <<>>
    /\ calc_pc = "off"
    /\ Idle
    /\ AuxIdle

Next ==
    \/ \E w \in Workers, id \in IDs : StartEnter(w, id)
    \/ \E w \in Workers : StartCheck(w)
    \/ \E w \in Workers : StartLoop(w)
    \/ \E w \in Workers, id \in IDs : StopEnter(w, id)
    \/ \E w \in Workers : StopCheck(w)
    \/ \E w \in Workers : StopClear(w)
    \/ \E t \in Threads : LoopTest(t)
    \/ \E t \in Threads : Tick(t)
    \/ \E t \in Threads : Notify(t)
    \/ \E t \in Threads : Sleep(t)

Spec == Init /\ [][Next]_vars

\* ------------------------------------------------------------- properties
AliveThreads == {t \in Threads : Alive(t)}
Started == {t \in Threads : tpc[t] # "unborn"}
Quiescent == \A w \in Workers : hpc[w] = "idle"

\* C1: at most one analysis thread is alive at any time, whatever the
\* interleaving of /start, /stop, ticks and sleeps (stated here for handlers
\* that run one at a time, which is the weakest form of the claim).
C1_SingleLoop == serial => Cardinality(AliveThreads) <= 1

\* C2: subscribe is idempotent on the subscriber set (the set after the call
\* is the old set with the id in it, and is the old set when the id was in it
\* already), and a /start that arrives while running is True, and stays True
\* while the handler runs, returns at line 143: it never sets running, never
\* calls get_trade_pairs and never creates a thread.
C2_SubscribeIdempotent ==
    [][\A w \in Workers :
          /\ (hpc[w] = "idle" /\ hpc'[w] = "s143")
                => /\ user_chat_ids' = user_chat_ids \cup {hchat'[w]}
                   /\ (hchat'[w] \in user_chat_ids => user_chat_ids' = user_chat_ids)
          /\ (hpc[w] = "s143" /\ hclean[w])
                => /\ hpc'[w] # "s144"
                   /\ (hpc'[w] = "idle"
                          => tpc' = tpc /\ btc_pairs' = btc_pairs /\ running' = running)
      ]_vars

\* C2 witness: the same id has sent /start twice and never /stop, the loop is
\* active with its thread alive, and the second handler stands at line 143.
C2_Witness ==
    \E w \in Workers :
        /\ hpc[w] = "s143" /\ hclean[w] /\ running
        /\ issued[<<"start", hchat[w]>>] = 2
        /\ issued[<<"stop", hchat[w]>>] = 0
        /\ Cardinality(AliveThreads) = 1

\* C3: a thread that was alive when a /stop emptied the subscriber set and
\* cleared running never begins another tick.
C3_CooperativeStop ==
    [][serial => \A t \in cancelled : ~(tpc[t] = "top" /\ tpc'[t] = "fetch")]_vars

\* C4: with handlers run one at a time, running goes from True to False only
\* in the /stop that removed the last member (the set is empty then), a /stop
\* that leaves members behind does not touch running, and the /stop that
\* empties the set ends with running False.
C4_RoundTrip ==
    [][serial' =>
          /\ (running /\ ~running')
                => /\ user_chat_ids' = {}
                   /\ \E w \in Workers :
                         hpc[w] = "s157" /\ hpc'[w] = "idle" /\ hremoved[w]
          /\ \A w \in Workers :
                /\ (hpc[w] = "s156" /\ hpc'[w] = "idle")
                      => user_chat_ids # {} /\ running' = running
                /\ (hpc[w] = "s156" /\ user_chat_ids = {}) => hpc'[w] \in {"s156", "s157"}
                /\ (hpc[w] = "s157" /\ hpc'[w] = "idle")
                      => ~running' /\ user_chat_ids' = {}
      ]_vars

\* C4 witness: ids 1 and 2 subscribed in one activation, both unsubscribed,
\* one handler at a time; the loop is idle and the set is empty.
C4_Witness ==
    /\ serial /\ Quiescent
    /\ NumIds >= 2
    /\ \A c \in {"start", "stop"} \X {1, 2} : issued[c] = 1
    /\ Cardinality(Started) = 1
    /\ ~running /\ user_chat_ids = {}

\* C5: a thread ends only at the while test of line 161 with running False;
\* a step that raises (CSV append, set changed during iteration) leads to the
\* sleep of line 181, the sleep leads back to the while test, and the test
\* with running True begins the next tick.
C5_ErrorsAbsorbed ==
    [][\A t \in Threads :
          /\ (tpc[t] # "done" /\ tpc'[t] = "done") => (tpc[t] = "top" /\ ~running)
          /\ (terr[t] = "none" /\ terr'[t] # "none") => tpc'[t] = "sleep"
          /\ (tpc[t] = "sleep" /\ tpc'[t] # "sleep") => tpc'[t] = "top"
          /\ (tpc[t] = "top" /\ running /\ tpc'[t] # "top") => tpc'[t] = "fetch"
      ]_vars

\* C5 witness: a thread whose last tick raised because the set changed size
\* under the iterator has passed the while test again and is about to fetch.
C5_Witness == \E t \in Threads : tpc[t] = "fetch" /\ terr[t] = "iteration"

\* serial execution of a multiset of commands from the initial state
SerialStep(st, c) ==
    LET ids == IF c[1] = "start" THEN st.ids \cup {c[2]} ELSE st.ids \ {c[2]}
    IN  IF c[1] = "start"
        THEN [ids |-> ids, run |-> TRUE,
              started |-> IF st.run THEN st.started ELSE st.started + 1]
        ELSE [ids |-> ids, run |-> IF ids = {} THEN FALSE ELSE st.run,
              started |-> st.started]

RECURSIVE SerialOutcomes(_, _)
SerialOutcomes(bag, st) ==
    IF \A c \in Commands : bag[c] = 0 THEN {st}
    ELSE UNION {SerialOutcomes([bag EXCEPT ![c] = @ - 1], SerialStep(st, c)) :
                    c \in {d \in Commands : bag[d] > 0}}

\* C6: when all handlers have returned, the subscriber set, the running flag
\* and the number of threads created are those of some serial execution of
\* the commands dispatched so far.
C6_Serializable ==
    Quiescent =>
        [ids |-> user_chat_ids, run |-> running, started |-> Cardinality(Started)]
            \in SerialOutcomes(issued, [ids |-> {}, run |-> FALSE, started |-> 0])

\* C7: at the end of a tick with a non-empty batch (whose CSV append
\* succeeded), every id that stayed subscribed throughout the notification
\* loop has been sent exactly one message.
C7_NotifyAll ==
    \A t \in Threads :
        (tpc[t] = "sleep" /\ topps[t] # <<>> /\ appended[t] = 1)
            => \A id \in present[t] : sent[t][id] = 1

\* C8: in a tick whose batch is empty, no message is sent and the CSV file of
\* log_opportunities is not opened or written (the line the logger writes at
\* line 178 goes to the diagnostic log, which is not the opportunity log).
C8_ReportNoOp ==
    \A t \in Threads :
        (tpc[t] = "sleep" /\ topps[t] = <<>>)
            => appended[t] = 0 /\ sent[t] = NoSends

\* C8 witness: a tick that fetched prices and found nothing has ended, with
\* subscribers present.
C8_Witness ==
    \E t \in Threads :
        tpc[t] = "sleep" /\ tgot[t] /\ topps[t] = <<>> /\ terr[t] = "none"
            /\ user_chat_ids # {}

\* C9 as claimed: every emitted spread (the rounded value) is strictly
\* greater than min_spread.
C9_StrictOnRounded ==
    calc_pc = "done" =>
        \A i \in DOMAIN result : result[i].spread * 10 > min_spread

\* min_spread rounded to 2 decimals, in hundredths of a percent
RoundedMinSpread == RoundHalfEven(BigOf(min_spread), <<10>>, 0)

\* C9 amended: every emitted opportunity has an unrounded spread strictly
\* greater than min_spread; its emitted (rounded) spread is greater than or
\* equal to min_spread rounded to 2 decimals.
C9_StrictOnUnrounded ==
    calc_pc = "done" =>
        \A i \in DOMAIN result :
            /\ BigCmp(BigMulAll(GainNum(snapshot, result[i].coin), <<100000>>),
                      BigMulAll(BigOf(100000 + min_spread),
                                GainDens(snapshot, result[i].coin))) = 1
            /\ result[i].spread >= RoundedMinSpread

\* C9 witness: an opportunity was emitted whose rounded spread equals
\* min_spread.
C9_Witness ==
    calc_pc = "done" /\ \E i \in DOMAIN result : result[i].spread * 10 = min_spread

\* position of a coin in the candidate list
IndexOf(coin) == CHOOSE i \in DOMAIN btc_pairs : btc_pairs[i] = coin

\* C10: the result is in descending order of spread, and entries of equal
\* spread are in the order of their coins in btc_pairs.
C10_Ordering ==
    calc_pc = "done" =>
        \A i, j \in DOMAIN result :
            i < j => /\ result[i].spread >= result[j].spread
                     /\ (result[i].spread = result[j].spread
                            => IndexOf(result[i].coin) < IndexOf(result[j].coin))

\* C10 witness: two opportunities of equal spread were returned.
C10_Witness ==
    /\ calc_pc = "done" /\ Len(result) >= 2
    /\ result[1].spread = result[2].spread

\* the candidate list without its i-th entry
Without(list, i) == SubSeq(list, 1, i - 1) \o SubSeq(list, i + 1, Len(list))

\* C11: a candidate whose X/USDT or X/BTC symbol is missing from the snapshot,
\* or whose evaluation raises (a zero X/USDT price), contributes no entry to
\* the result, no exception leaves calculate_arbitrage, and the result is the
\* one calculate_arbitrage returns for the candidate list without it.
C11_Isolation ==
    calc_pc # "ready" =>
        /\ calc_pc = "done"
        /\ \A i \in DOMAIN btc_pairs :
              (~Quoted(snapshot, btc_pairs[i]) \/ Raises(snapshot, btc_pairs[i]))
                 => /\ \A k \in DOMAIN result : result[k].coin # btc_pairs[i]
                    /\ result = SortedDesc(Collect(snapshot, Without(btc_pairs, i)))

\* C11 witness: of two candidates, one has a zero X/USDT price and the other
\* is returned as an opportunity.
C11_Witness ==
    /\ calc_pc = "done" /\ Len(btc_pairs) = 2 /\ Len(result) = 1
    /\ \E i \in DOMAIN btc_pairs :
          /\ Quoted(snapshot, btc_pairs[i])
          /\ snapshot[Symbol(btc_pairs[i], "USDT")].m = 0

\* C12: a tick whose get_prices answer is empty (a failed fetch returns {})
\* calls neither calculate_arbitrage nor log_opportunities' append nor
\* send_message, absorbs no exception and goes to the sleep of line 166; the
\* sleep leads back to the while test, which begins the next tick when
\* running is still True.
C12_EmptyTick ==
    [][\A t \in Threads :
          /\ (tpc[t] = "fetch" /\ tpc'[t] # "fetch" /\ ~tgot'[t])
                => /\ tpc'[t] = "sleep"
                   /\ ~tcalc'[t] /\ topps'[t] = <<>>
                   /\ sent'[t] = NoSends /\ appended'[t] = 0
                   /\ terr'[t] = "none"
          /\ (tpc[t] = "sleep" /\ ~tgot[t])
                => /\ ~tcalc[t] /\ sent[t] = NoSends /\ appended[t] = 0
                   /\ tpc'[t] \in {"sleep", "top"}
                   /\ sent'[t] = NoSends /\ appended'[t] = 0
          /\ (tpc[t] = "top" /\ running /\ tpc'[t] # "top") => tpc'[t] = "fetch"
      ]_vars

\* C12 witness: a thread sleeps after a tick whose price answer was empty,
\* with the loop active and a subscriber present.
C12_Witness ==
    \E t \in Threads :
        /\ tpc[t] = "sleep" /\ ~tgot[t] /\ DOMAIN tprices[t] = {}
        /\ running /\ user_chat_ids # {}

\* C13: whenever a handler is about to run the activation block (lines
\* 144-148), a failing get_trade_pairs leaves the empty candidate list for
\* the ticks of that activation, also when an earlier activation resolved a
\* non-empty one (stated for handlers that run one at a time, so that the
\* earlier activation is a completed one).
C13_FailureYieldsEmpty ==
    \A w \in Workers :
        (serial /\ hpc[w] = "s144") =>
            \A symbols \in ExchangeInfos : get_trade_pairs(FALSE, symbols) = {<<>>}

\* the argument of the last setter command is one the claim calls invalid:
\* missing, not a number, or out of range
InvalidArg(set) ==
    \/ ~Parses(set.arg)
    \/ set.cmd = "set_min_spread" /\ set.arg.v <= 0
    \/ set.cmd = "set_fee" /\ (set.arg.v < 0 \/ set.arg.v > 1000)
    \/ set.cmd = "set_deposit" /\ set.arg.v <= 0

\* C14: a setter command with an invalid argument is answered with the error
\* text and leaves min_spread, fee and initial_deposit unchanged, and in every
\* state min_spread > 0, 0 <= fee <= 1 and initial_deposit > 0.
C14_InvalidRejected ==
    [][/\ (nsets' # nsets /\ InvalidArg(lastset'))
             => (reply' = "error" /\ UNCHANGED cfgVars)
       /\ (min_spread' > 0 /\ 0 <= fee' /\ fee' <= 1000 /\ initial_deposit' > 0)
      ]_vars

\* C19: the configuration fields always hold the values last acknowledged to
\* a user, every tick that obtains prices computes its opportunities from the
\* fields as they are when it calculates (so from the values of the last
\* accepted setter command, with the same thread going on), and a setter
\* command changes nothing of what a tick has computed, logged or sent.
C19_ReadLive ==
    [][/\ min_spread' = acked'.min_spread
       /\ fee' = acked'.fee
       /\ initial_deposit' = acked'.deposit
       /\ \A t \in Threads :
             (tpc[t] = "fetch" /\ tpc'[t] # "fetch" /\ tgot'[t])
                => topps'[t] = calculate_arbitrage(tprices'[t])
       /\ (nsets' # nsets) => UNCHANGED <<tpc, topps, sent, appended>>
      ]_vars

\* C19 witness: the only setter command so far raised min_spread to 50.0, and
\* a later tick of the same thread found nothing in the snapshot whose spread
\* of 49.55 % the default threshold of 3.0 would have reported.
C19_Witness ==
    /\ nsets = 1 /\ lastset = [cmd |-> "set_min_spread", arg |-> Number(50000)]
    /\ min_spread = 50000
    /\ \E t \in Threads :
          tpc[t] = "sleep" /\ tprices[t] = ProfitSnapshot /\ topps[t] = <<>>

\* C15: at most one of the processes started against the lock file passes
\* acquire_lock and runs the bot.
C15_OneInstance == Cardinality({p \in Procs : ppc[p] = "run"}) <= 1

\* the inputs of the worked example: min_spread 3.0, fee 0.001, deposit
\* 1000.0, BTCUSDT 60000, one candidate with X/USDT 2.0 and X/BTC 0.00005
ExampleInputs ==
    /\ min_spread = DefaultMinSpread /\ fee = DefaultFee
    /\ initial_deposit = DefaultDeposit
    /\ Len(btc_pairs) = 1
    /\ DOMAIN snapshot = {BTCUSDT, Symbol(btc_pairs[1], "USDT"),
                          Symbol(btc_pairs[1], "BTC")}
    /\ snapshot[BTCUSDT] = [m |-> 60000, e |-> 0]
    /\ snapshot[Symbol(btc_pairs[1], "USDT")] = [m |-> 2, e |-> 0]
    /\ snapshot[Symbol(btc_pairs[1], "BTC")] = [m |-> 5, e |-> 5]

\* C16 as claimed: on the inputs of the worked example calculate_arbitrage
\* returns exactly one opportunity, for the candidate, with spread 49.55 and
\* profit 495.51.
C16_ExampleAsClaimed ==
    (calc_pc # "ready" /\ ExampleInputs) =>
        /\ calc_pc = "done"
        /\ result = <<[coin |-> btc_pairs[1], spread |-> 4955, profit |-> 49551]>>

\* C16 amended: on the inputs of the worked example calculate_arbitrage
\* returns exactly one opportunity, for the candidate, with spread 49.55 and
\* profit 495.50 (final_usdt is 1495.5044985).
C16_Example ==
    (calc_pc # "ready" /\ ExampleInputs) =>
        /\ calc_pc = "done"
        /\ result = <<[coin |-> btc_pairs[1], spread |-> 4955, profit |-> 49550]>>

\* C16 witness: calculate_arbitrage has returned on the inputs of the worked
\* example.
C16_Witness == calc_pc = "done" /\ ExampleInputs /\ Len(result) = 1

\* the answer lists an instrument of the coin quoted in `quote` whose status
\* is TRADING
Tradable(coin, quote) ==
    \E x \in exchange : x.base = coin /\ x.quote = quote /\ x.status = "TRADING"

\* C17: after a successful get_trade_pairs, btc_pairs lists, once each,
\* exactly the base assets that have a TRADING instrument quoted in BTC and a
\* TRADING instrument quoted in USDT.
C17_ResolverOutput ==
    (res_pc = "done" /\ res_ok) =>
        /\ \A c \in Coins :
              (\E i \in DOMAIN btc_pairs : btc_pairs[i] = c)
                 <=> (Tradable(c, "BTC") /\ Tradable(c, "USDT"))
        /\ \A i, j \in DOMAIN btc_pairs :
              (btc_pairs[i] \in Coins) /\ (btc_pairs[i] = btc_pairs[j] => i = j)

\* C17 witness: a successful resolution kept one coin and left out another
\* whose BTC instrument is TRADING and whose USDT instrument is halted.
C17_Witness ==
    /\ res_pc = "done" /\ res_ok /\ Len(btc_pairs) = 1
    /\ \E c \in Coins :
          /\ Tradable(c, "BTC")
          /\ [base |-> c, quote |-> "USDT", status |-> "BREAK"] \in exchange

\* C18: get_trade_pairs is called exactly once per transition of running
\* from False to True: every run of the activation block (lines 144-148) is
\* such a transition, every such transition runs it, and btc_pairs changes in
\* no other step (no tick, no /start that finds the loop active, no /stop).
C18_ResolvedOnce ==
    [][/\ \A w \in Workers :
             (hpc[w] = "s144" /\ hpc'[w] = "idle") => (~running /\ running')
       /\ (btc_pairs' # btc_pairs) => (~running /\ running')
       /\ (~running /\ running')
             => \E w \in Workers : hpc[w] = "s144" /\ hpc'[w] = "idle"
      ]_vars

\* C20: with handlers run one at a time, whenever all handlers have returned
\* running is True exactly when the subscriber set is non-empty, and running
\* True comes with at least one analysis thread alive.
C20_FlagMatchesSubscribers ==
    (serial /\ Quiescent) =>
        /\ running <=> (user_chat_ids # {})
        /\ running => AliveThreads # {}

\* C20 witness: chat 1 is subscribed, chat 2 has sent /stop without ever
\* having subscribed, all handlers ran one at a time and have returned.
C20_Witness ==
    /\ serial /\ Quiescent /\ NumIds >= 2
    /\ issued[<<"start", 1>>] = 1 /\ issued[<<"stop", 1>>] = 0
    /\ issued[<<"start", 2>>] = 0 /\ issued[<<"stop", 2>>] = 1
    /\ running /\ user_chat_ids = {1} /\ AliveThreads # {}

====
